---------------------------- MODULE Spec2Model ----------------------------
(***************************************************************************)
(* Model of the attendance statistics calculator                           *)
(* (frontend/app/services/calculator.ts).                                  *)
(*                                                                         *)
(* The calculator is written in TypeScript, so every number it computes    *)
(* with is an IEEE-754 binary64 value.  The quotients target/100,          *)
(* present/total and the two bunkable/required formulas are not exact in   *)
(* binary64, and Math.floor / Math.ceil are applied to the ROUNDED values,  *)
(* so the model carries binary64 arithmetic (round to nearest, ties to     *)
(* even) on arbitrary-precision naturals instead of exact fractions.       *)
(*                                                                         *)
(* The arithmetic is written as functions, not operators: a function is    *)
(* applied to the value of its argument, so a long division is evaluated   *)
(* step by step instead of as one deeply nested expression.                *)
(***************************************************************************)
EXTENDS Integers, Sequences, FiniteSets, TLC

(***************************************************************************)
(* Arbitrary-precision naturals: little-endian sequences of limbs in       *)
(* 0..Base-1 without leading zero limbs; <<>> is zero.                     *)
(***************************************************************************)
LimbBits == 15
Base == 2^LimbBits
Big == Seq(Nat)

RECURSIVE Pow2(_)
Pow2(n) == IF n = 0 THEN 1 ELSE 2 * Pow2(n - 1)

RECURSIVE IntBitLen(_)
IntBitLen(n) == IF n = 0 THEN 0 ELSE 1 + IntBitLen(n \div 2)

BNorm[a \in Big] ==
  IF a = <<>> THEN <<>>
  ELSE IF a[Len(a)] = 0 THEN BNorm[SubSeq(a, 1, Len(a) - 1)]
  ELSE a

BFromInt[n \in Nat] ==
  IF n = 0 THEN <<>> ELSE <<n % Base>> \o BFromInt[n \div Base]

BToInt[a \in Big] ==
  IF a = <<>> THEN 0 ELSE a[1] + Base * BToInt[Tail(a)]

BCmpFrom[a \in Big, b \in Big, i \in Nat] ==
  IF i = 0 THEN 0
  ELSE IF a[i] > b[i] THEN 1
  ELSE IF a[i] < b[i] THEN -1
  ELSE BCmpFrom[a, b, i - 1]

\* -1, 0 or 1 as a < b, a = b or a > b
BCmp[a \in Big, b \in Big] ==
  IF Len(a) > Len(b) THEN 1
  ELSE IF Len(a) < Len(b) THEN -1
  ELSE BCmpFrom[a, b, Len(a)]

BAddC[a \in Big, b \in Big, c \in Nat] ==
  IF a = <<>> /\ b = <<>> THEN (IF c = 0 THEN <<>> ELSE <<c>>)
  ELSE LET x == IF a = <<>> THEN 0 ELSE a[1]
           y == IF b = <<>> THEN 0 ELSE b[1]
           s == x + y + c
       IN  <<s % Base>> \o BAddC[IF a = <<>> THEN <<>> ELSE Tail(a),
                                 IF b = <<>> THEN <<>> ELSE Tail(b),
                                 s \div Base]

BAdd[a \in Big, b \in Big] == BAddC[a, b, 0]

\* a - b - c for a >= b + c
BSubC[a \in Big, b \in Big, c \in Nat] ==
  IF a = <<>> THEN <<>>
  ELSE LET y == IF b = <<>> THEN 0 ELSE b[1]
           d == a[1] - y - c
       IN  <<IF d < 0 THEN d + Base ELSE d>>
             \o BSubC[Tail(a), IF b = <<>> THEN <<>> ELSE Tail(b),
                      IF d < 0 THEN 1 ELSE 0]

BSub[a \in Big, b \in Big] == BNorm[BSubC[a, b, 0]]

\* a * k + c for 0 <= k, c < Base
BMulSmall[a \in Big, k \in Nat, c \in Nat] ==
  IF a = <<>> THEN (IF c = 0 THEN <<>> ELSE <<c>>)
  ELSE LET p == a[1] * k + c
       IN  <<p % Base>> \o BMulSmall[Tail(a), k, p \div Base]

BMul[a \in Big, b \in Big] ==
  IF a = <<>> \/ b = <<>> THEN <<>>
  ELSE LET rest == BMul[a, Tail(b)]
       IN  BAdd[BMulSmall[a, b[1], 0],
                IF rest = <<>> THEN <<>> ELSE <<0>> \o rest]

\* limbs 1..i of floor((r * Base^i + a mod Base^i) / k) for 0 <= r < k < Base
BDivSmallFrom[a \in Big, k \in Nat, i \in Nat, r \in Nat] ==
  IF i = 0 THEN <<>>
  ELSE LET cur == r * Base + a[i]
       IN  BDivSmallFrom[a, k, i - 1, cur % k] \o <<cur \div k>>

BDivSmall[a \in Big, k \in Nat] == BNorm[BDivSmallFrom[a, k, Len(a), 0]]

\* a * 2^n
BShl[a \in Big, n \in Nat] ==
  IF a = <<>> THEN <<>>
  ELSE [i \in 1..(n \div LimbBits) |-> 0] \o BMulSmall[a, Pow2(n % LimbBits), 0]

\* floor(a / 2^n)
BShr[a \in Big, n \in Nat] ==
  IF n \div LimbBits >= Len(a) THEN <<>>
  ELSE BDivSmall[SubSeq(a, n \div LimbBits + 1, Len(a)), Pow2(n % LimbBits)]

BBitLen[a \in Big] ==
  IF a = <<>> THEN 0 ELSE LimbBits * (Len(a) - 1) + IntBitLen(a[Len(a)])

BOdd[a \in Big] == a # <<>> /\ a[1] % 2 = 1

(***************************************************************************)
(* JavaScript numbers (binary64).  A finite number is s * m * 2^e with     *)
(* s in {1,-1} and either m = 0 (then s = 1, e = 0; the sign of zero is    *)
(* not observable in any result of the calculator) or m of exactly         *)
(* Precision bits, so equal numbers are equal records.  The calculator's   *)
(* values stay between 2^-70 and 2^40 in magnitude, far from the           *)
(* subnormal and overflow ranges, so the exponent is left unbounded.       *)
(***************************************************************************)
Precision == 53

Number == [k : {"fin", "nan", "inf"}, s : {1, -1}, m : Big, e : Int]
Sign == {1, -1}

NaN == [k |-> "nan", s |-> 1, m |-> <<>>, e |-> 0]
Infinity(sign) == [k |-> "inf", s |-> sign, m |-> <<>>, e |-> 0]
Zero == [k |-> "fin", s |-> 1, m |-> <<>>, e |-> 0]

IsFinite(x) == x.k = "fin"
IsZero(x) == x.k = "fin" /\ x.m = <<>>

\* The binary64 nearest to sign * (n + d) * 2^e, where n is a natural,
\* 0 <= d < 1 and d > 0 iff sticky (ties to even).  When sticky holds the
\* caller supplies n with at least Precision + 2 bits.
RoundNearestEven[sign \in Sign, n \in Big, e \in Int, sticky \in BOOLEAN] ==
  IF n = <<>> THEN Zero
  ELSE LET L == BBitLen[n]
       IN  IF L <= Precision
             THEN [k |-> "fin", s |-> sign, m |-> BShl[n, Precision - L],
                   e |-> e - (Precision - L)]
             ELSE LET drop == L - Precision
                      qh   == BShr[n, drop]
                      low  == BSub[n, BShl[qh, drop]]
                      half == BShl[<<1>>, drop - 1]
                      c    == BCmp[low, half]
                      up   == c > 0 \/ (c = 0 /\ (sticky \/ BOdd[qh]))
                      q    == IF up THEN BAdd[qh, <<1>>] ELSE qh
                  IN  IF BBitLen[q] > Precision
                        THEN [k |-> "fin", s |-> sign, m |-> BShr[q, 1],
                              e |-> e + drop + 1]
                        ELSE [k |-> "fin", s |-> sign, m |-> q,
                              e |-> e + drop]

\* an integer of the model as a number (exact below 2^31)
FromInt[i \in Int] ==
  IF i >= 0 THEN RoundNearestEven[1, BFromInt[i], 0, FALSE]
  ELSE RoundNearestEven[-1, BFromInt[-i], 0, FALSE]

\* i / 2 as a number (exact)
FromHalves[i \in Nat] == RoundNearestEven[1, BFromInt[i], -1, FALSE]

Neg[x \in Number] ==
  IF x.k = "nan" \/ IsZero(x) THEN x
  ELSE [x EXCEPT !.s = -x.s]

\* comparison of the magnitudes of two finite numbers: -1, 0 or 1
CmpMag[x \in Number, y \in Number] ==
  IF x.m = <<>> THEN (IF y.m = <<>> THEN 0 ELSE -1)
  ELSE IF y.m = <<>> THEN 1
  ELSE IF x.e > y.e THEN 1
  ELSE IF x.e < y.e THEN -1
  ELSE BCmp[x.m, y.m]

\* x < y as JavaScript evaluates it (false when either side is NaN)
Less[x \in Number, y \in Number] ==
  IF x.k = "nan" \/ y.k = "nan" THEN FALSE
  ELSE IF x.k = "inf" THEN x.s = -1 /\ ~(y.k = "inf" /\ y.s = -1)
  ELSE IF y.k = "inf" THEN y.s = 1
  ELSE IF x.s # y.s THEN x.s < y.s
  ELSE IF x.s = 1 THEN CmpMag[x, y] < 0
  ELSE CmpMag[x, y] > 0

\* x >= y as JavaScript evaluates it
GreaterEq[x \in Number, y \in Number] ==
  IF x.k = "nan" \/ y.k = "nan" THEN FALSE ELSE ~Less[x, y]

\* x - y
Sub[x \in Number, y \in Number] ==
  IF x.k = "nan" \/ y.k = "nan" THEN NaN
  ELSE IF x.k = "inf"
    THEN (IF y.k = "inf" /\ y.s = x.s THEN NaN ELSE x)
  ELSE IF y.k = "inf" THEN Infinity(-y.s)
  ELSE IF y.m = <<>> THEN x
  ELSE IF x.m = <<>> THEN Neg[y]
  ELSE LET e0 == IF x.e < y.e THEN x.e ELSE y.e
           nx == BShl[x.m, x.e - e0]
           ny == BShl[y.m, y.e - e0]
           c  == BCmp[nx, ny]
       IN  IF x.s # y.s
             THEN RoundNearestEven[x.s, BAdd[nx, ny], e0, FALSE]
           ELSE IF c = 0 THEN Zero
           ELSE IF c > 0 THEN RoundNearestEven[x.s, BSub[nx, ny], e0, FALSE]
           ELSE RoundNearestEven[-x.s, BSub[ny, nx], e0, FALSE]

\* x * y
Mul[x \in Number, y \in Number] ==
  IF x.k = "nan" \/ y.k = "nan" THEN NaN
  ELSE IF x.k = "inf" \/ y.k = "inf"
    THEN (IF IsZero(x) \/ IsZero(y) THEN NaN ELSE Infinity(x.s * y.s))
  ELSE IF x.m = <<>> \/ y.m = <<>> THEN Zero
  ELSE RoundNearestEven[x.s * y.s, BMul[x.m, y.m], x.e + y.e, FALSE]

\* One step of long division: <<floor(r / d), r mod d>> for r < d * Base,
\* where the top limb of d is at least Base / 2.  The digit is estimated
\* from the leading limbs (never too large) and then corrected upwards.
DivCorrect[q \in Nat, r \in Big, d \in Big] ==
  IF BCmp[r, d] >= 0 THEN DivCorrect[q + 1, BSub[r, d], d] ELSE <<q, r>>

DivDigit[r \in Big, d \in Big] ==
  LET L   == Len(d)
      top == (IF Len(r) > L THEN r[L + 1] * Base ELSE 0)
               + (IF Len(r) >= L THEN r[L] ELSE 0)
      est == top \div (d[L] + 1)
  IN  DivCorrect[est, BSub[r, BNorm[BMulSmall[d, est, 0]]], d]

\* Long division: quotient and remainder after producing n further
\* quotient limbs from the quotient q and the remainder r (r < d) so far.
DivLimbs[q \in Big, r \in Big, d \in Big, n \in Nat] ==
  IF n = 0 THEN <<q, r>>
  ELSE LET step == DivDigit[IF r = <<>> THEN <<>> ELSE <<0>> \o r, d]
       IN  DivLimbs[<<step[1]>> \o q, step[2], d, n - 1]

\* the quotient is computed to QuotientLimbs limbs below the binary point of
\* m_x / m_y, which leaves RoundNearestEven more than Precision + 2 bits
QuotientLimbs == 4

\* x / y
Div[x \in Number, y \in Number] ==
  IF x.k = "nan" \/ y.k = "nan" THEN NaN
  ELSE IF x.k = "inf"
    THEN (IF y.k = "inf" THEN NaN ELSE Infinity(x.s * y.s))
  ELSE IF y.k = "inf" THEN Zero
  ELSE IF y.m = <<>>
    THEN (IF x.m = <<>> THEN NaN ELSE Infinity(x.s * y.s))
  ELSE IF x.m = <<>> THEN Zero
  ELSE LET pad   == (LimbBits - (Precision % LimbBits)) % LimbBits
           n     == BShl[x.m, pad]
           d     == BShl[y.m, pad]
           first == BCmp[n, d] >= 0
           q0    == IF first THEN <<1>> ELSE <<>>
           r0    == IF first THEN BSub[n, d] ELSE n
           qr    == DivLimbs[q0, r0, d, QuotientLimbs]
       IN  RoundNearestEven[x.s * y.s, qr[1],
                            x.e - y.e - QuotientLimbs * LimbBits,
                            qr[2] # <<>>]

\* the integer part floor(|x|) of a finite number, as a natural
IntPart[x \in Number] ==
  IF x.m = <<>> THEN <<>>
  ELSE IF x.e >= 0 THEN BShl[x.m, x.e]
  ELSE BShr[x.m, -x.e]

\* does the finite number x have a fractional part
HasFraction[x \in Number] ==
  x.m # <<>> /\ x.e < 0 /\ BShl[IntPart[x], -x.e] # x.m

\* Math.floor
MathFloor[x \in Number] ==
  IF x.k # "fin" THEN x
  ELSE IF x.s = 1 THEN RoundNearestEven[1, IntPart[x], 0, FALSE]
  ELSE RoundNearestEven[-1, IF HasFraction[x] THEN BAdd[IntPart[x], <<1>>]
                                             ELSE IntPart[x], 0, FALSE]

\* Math.ceil
MathCeil[x \in Number] == Neg[MathFloor[Neg[x]]]

\* Math.round: floor(x + 0.5), computed without intermediate rounding
MathRound[x \in Number] ==
  IF x.k # "fin" \/ x.m = <<>> \/ x.e >= 0 THEN x
  ELSE LET twice == BShr[x.m, -x.e - 1]      \* floor(2|x|)
           exact == BShl[twice, -x.e - 1] = x.m
           down  == BShr[twice, 1]
       IN  IF x.s = 1
             THEN RoundNearestEven[1, BShr[BAdd[twice, <<1>>], 1], 0, FALSE]
           ELSE IF BOdd[twice] /\ ~exact
             THEN RoundNearestEven[-1, BAdd[down, <<1>>], 0, FALSE]
           ELSE RoundNearestEven[-1, down, 0, FALSE]

\* Math.max(x, y)
MathMax[x \in Number, y \in Number] ==
  IF x.k = "nan" \/ y.k = "nan" THEN NaN
  ELSE IF Less[x, y] THEN y ELSE x

\* the value of an integral finite number of small magnitude
ToInt[x \in Number] == x.s * BToInt[IntPart[x]]

(***************************************************************************)
(* The calculator's inputs.                                                *)
(***************************************************************************)
Statuses == {"present", "absent", "half", "holiday", "cancelled"}
Subjects == {"s1", "s2"}
Targets == 0..100

\* the name a subject id is shown with
SubjectName(id) == IF id = "s1" THEN "Maths" ELSE "Physics"

\* records[i].status = status, counted over the list
CountStatus(records, status) ==
  Cardinality({i \in DOMAIN records : records[i].status = status})

\* `present` after the forEach: 1 per present and 0.5 per half record.
\* Sums of 1 and 0.5 are exact in binary64, so the sum is built in one step.
Accumulate(records) ==
  FromHalves[2 * CountStatus(records, "present") + CountStatus(records, "half")]

\* faulty variants of IsCounted: one also counts holidays, one leaves the
\* half days out of the total
IsCountedWithHolidays(a) == a.status # "cancelled"
IsCountedWithoutHalf(a) == a.status # "half" /\ a.status # "cancelled"

\* a => a.status !== 'holiday' && a.status !== 'cancelled'
IsCounted(a) == a.status # "holiday" /\ a.status # "cancelled"

\* faulty variant of Percentage: the guard against total = 0 is missing
PercentageUnguarded(present, total) ==
  Mul[Div[present, FromInt[total]], FromInt[100]]

\* total > 0 ? (present / total) * 100 : 0
Percentage(present, total) ==
  IF total > 0 THEN Mul[Div[present, FromInt[total]], FromInt[100]] ELSE Zero

\* faulty variant of Bunkable: the shortfall is divided, not the surplus
BunkableOfShortfall(present, total, target) ==
  IF total > 0
    THEN MathFloor[Div[Sub[Mul[target, FromInt[total]], present],
                       Sub[FromInt[1], target]]]
    ELSE Zero

\* total > 0 ? Math.floor((present - target * total) / (1 - target)) : 0
Bunkable(present, total, target) ==
  IF total > 0
    THEN MathFloor[Div[Sub[present, Mul[target, FromInt[total]]],
                       Sub[FromInt[1], target]]]
    ELSE Zero

\* faulty variant of Required: the surplus over the target is reported when
\* the percentage is at or above it
RequiredSurplus(present, total, percentage, targetPercentage, target) ==
  IF total > 0 /\ ~Less[percentage, FromInt[targetPercentage]]
    THEN MathCeil[Div[Sub[present, Mul[target, FromInt[total]]], target]]
    ELSE Zero

\* total > 0 && percentage < targetPercentage
\*   ? Math.ceil((target * total - present) / target) : 0
Required(present, total, percentage, targetPercentage, target) ==
  IF total > 0 /\ Less[percentage, FromInt[targetPercentage]]
    THEN MathCeil[Div[Sub[Mul[target, FromInt[total]], present], target]]
    ELSE Zero

\* Math.round(percentage * 100) / 100
RoundTwoDecimals(percentage) ==
  Div[MathRound[Mul[percentage, FromInt[100]]], FromInt[100]]

calculateSubjectStats(subjectId, subjectName, attendance, targetPercentage) ==
  LET subjectAttendance ==
        SelectSeq(attendance, LAMBDA a : a.subjectId = subjectId)
      present    == Accumulate(subjectAttendance)
      absent     == CountStatus(subjectAttendance, "absent")
      half       == CountStatus(subjectAttendance, "half")
      total      == Len(SelectSeq(subjectAttendance, IsCounted))
      percentage == Percentage(present, total)
      target     == Div[FromInt[targetPercentage], FromInt[100]]
      bunkable   == Bunkable(present, total, target)
      required   == Required(present, total, percentage, targetPercentage,
                             target)
  IN  [subjectId   |-> subjectId,
       subjectName |-> subjectName,
       present     |-> MathFloor[present],
       absent      |-> absent,
       half        |-> half,
       total       |-> total,
       percentage  |-> RoundTwoDecimals(percentage),
       bunkable    |-> MathMax[Zero, bunkable],
       required    |-> MathMax[Zero, required]]

\* faulty variant of calculateOverallStats: every record counts as a class
calculateOverallStatsUnfiltered(attendance, targetPercentage) ==
  LET present      == Accumulate(attendance)
      totalClasses == Len(attendance)
      percentage   == Percentage(present, totalClasses)
      target       == Div[FromInt[targetPercentage], FromInt[100]]
      bunkable     == Bunkable(present, totalClasses, target)
      required     == Required(present, totalClasses, percentage,
                               targetPercentage, target)
  IN  [totalClasses |-> totalClasses,
       attended     |-> MathFloor[present],
       percentage   |-> RoundTwoDecimals(percentage),
       bunkable     |-> MathMax[Zero, bunkable],
       required     |-> MathMax[Zero, required]]

calculateOverallStats(attendance, targetPercentage) ==
  LET present      == Accumulate(attendance)
      totalClasses == Len(SelectSeq(attendance, IsCounted))
      percentage   == Percentage(present, totalClasses)
      target       == Div[FromInt[targetPercentage], FromInt[100]]
      bunkable     == Bunkable(present, totalClasses, target)
      required     == Required(present, totalClasses, percentage,
                               targetPercentage, target)
  IN  [totalClasses |-> totalClasses,
       attended     |-> MathFloor[present],
       percentage   |-> RoundTwoDecimals(percentage),
       bunkable     |-> MathMax[Zero, bunkable],
       required     |-> MathMax[Zero, required]]

(***************************************************************************)
(* Dates.  An ISO date string 'yyyy-MM-dd' is the triple <<y, m, d>>;      *)
(* parseISO turns it into the local midnight of that day, which the model  *)
(* counts in days since 1970-01-01 (the millisecond count of a Date is     *)
(* 86400000 times that plus the zone offset, and does not fit TLC's        *)
(* integers).                                                              *)
(***************************************************************************)
\* parseISO(date)
parseISO(date) ==
  LET y   == IF date[2] <= 2 THEN date[1] - 1 ELSE date[1]
      era == y \div 400
      yoe == y - era * 400
      mp  == IF date[2] > 2 THEN date[2] - 3 ELSE date[2] + 9
      doy == (153 * mp + 2) \div 5 + date[3] - 1
      doe == yoe * 365 + yoe \div 4 - yoe \div 100 + doy
  IN  era * 146097 + doe - 719468

\* What a call does: it returns a boolean or throws.
Returned(value) == [returns |-> value, throws |-> "none"]

Thrown(error) == [returns |-> FALSE, throws |-> error]

\* date-fns is not part of the repository and its version is not pinned in
\* the sources: version 2 of isWithinInterval throws a RangeError when the
\* start is after the end, versions 3 and 4 order the two ends first.
DateFnsVersions == {"v2", "v3"}

\* faulty variant of isWithinInterval: the end of the interval is excluded
isWithinIntervalOpenEnd(time, interval, version) ==
  IF interval.start <= interval.end
    THEN Returned(time >= interval.start /\ time < interval.end)
  ELSE IF version = "v2" THEN Thrown("RangeError")
  ELSE Returned(time >= interval.end /\ time < interval.start)

\* date-fns isWithinInterval(date, {start, end})
isWithinInterval(time, interval, version) ==
  IF interval.start <= interval.end
    THEN Returned(time >= interval.start /\ time <= interval.end)
  ELSE IF version = "v2" THEN Thrown("RangeError")
  ELSE Returned(time >= interval.end /\ time <= interval.start)

\* holidays.some(holiday => isWithinInterval(checkDate, {...})): the entries
\* are tried in order, up to the first that matches or throws
RECURSIVE SomeWithin(_, _, _)
SomeWithin(checkDate, holidays, version) ==
  IF holidays = <<>> THEN Returned(FALSE)
  ELSE LET holiday == Head(holidays)
           within  == isWithinInterval(checkDate,
                                       [start |-> parseISO(holiday.startDate),
                                        end   |-> parseISO(holiday.endDate)],
                                       version)
       IN  IF within.throws # "none" \/ within.returns THEN within
           ELSE SomeWithin(checkDate, Tail(holidays), version)

isHoliday(date, holidays, version) ==
  SomeWithin(parseISO(date), holidays, version)

\* the colour of a record's dot
DotColor(status) ==
  IF status = "present" THEN "#10B981"
  ELSE IF status = "absent" THEN "#EF4444"
  ELSE IF status = "half" THEN "#F59E0B"
  ELSE "#9CA3AF"

\* faulty variant of Mark: an entry already present is kept
MarkKeepFirst(marked, record) ==
  IF record.date \in DOMAIN marked THEN marked
  ELSE [d \in DOMAIN marked \cup {record.date} |->
          IF d = record.date
            THEN [marked |-> TRUE, dotColor |-> DotColor(record.status)]
            ELSE marked[d]]

\* marked[record.date] = { marked: true, dotColor: color }
Mark(marked, record) ==
  [d \in DOMAIN marked \cup {record.date} |->
     IF d = record.date
       THEN [marked |-> TRUE, dotColor |-> DotColor(record.status)]
       ELSE marked[d]]

\* attendance.forEach(record => ...), from the marks made so far
RECURSIVE MarkEach(_, _)
MarkEach(marked, records) ==
  IF records = <<>> THEN marked
  ELSE MarkEach(Mark(marked, Head(records)), Tail(records))

getCalendarMarkedDates(attendance, holidays) == MarkEach(<<>>, attendance)

(***************************************************************************)
(* The Subjects screen.  A value that may be undefined or NaN is a record  *)
(* [t, v]; a string is the sequence of its characters.                     *)
(***************************************************************************)
Undefined == [t |-> "undefined", v |-> 0]
NotANumber == [t |-> "nan", v |-> 0]
NumberValue(n) == [t |-> "number", v |-> n]

\* ToBoolean of undefined, NaN or a number
Truthy(x) == x.t = "number" /\ x.v # 0

\* a || b
OrElse(a, b) == IF Truthy(a) THEN a ELSE b

DigitChars == <<"0", "1", "2", "3", "4", "5", "6", "7", "8", "9">>

IsDigit(c) == \E i \in DOMAIN DigitChars : DigitChars[i] = c

DigitOf(c) == (CHOOSE i \in DOMAIN DigitChars : DigitChars[i] = c) - 1

\* the value of the longest run of digits the text starts with, after acc
RECURSIVE LeadingDigits(_, _)
LeadingDigits(text, acc) ==
  IF text = <<>> \/ ~IsDigit(Head(text)) THEN acc
  ELSE LeadingDigits(Tail(text), 10 * acc + DigitOf(Head(text)))

\* parseInt(text) of a text without blanks or sign
parseInt(text) ==
  IF text = <<>> \/ ~IsDigit(Head(text)) THEN NotANumber
  ELSE NumberValue(LeadingDigits(text, 0))

\* n.toString() of a natural number
RECURSIVE NatToString(_)
NatToString(n) ==
  IF n < 10 THEN <<DigitChars[n + 1]>>
  ELSE Append(NatToString(n \div 10), DigitChars[(n % 10) + 1])

\* subject.targetPercentage?.toString() || ''
TargetText(targetPercentage) ==
  IF targetPercentage.t = "undefined" THEN <<>>
  ELSE IF targetPercentage.t = "nan" THEN <<"N", "a", "N">>
  ELSE NatToString(targetPercentage.v)

\* text.trim()
RECURSIVE TrimStart(_)
TrimStart(text) ==
  IF text # <<>> /\ Head(text) = " " THEN TrimStart(Tail(text)) ELSE text

RECURSIVE TrimEnd(_)
TrimEnd(text) ==
  IF text # <<>> /\ text[Len(text)] = " "
    THEN TrimEnd(SubSeq(text, 1, Len(text) - 1))
    ELSE text

Trim(text) == TrimEnd(TrimStart(text))

\* subject.targetPercentage || settings?.targetPercentage || 75, as handed
\* to calculateSubjectStats
StatsTarget(subject, settings) ==
  OrElse(OrElse(subject.targetPercentage, settings), NumberValue(75))

\* the same expression where the card is drawn
CardTarget(subject, settings) ==
  OrElse(OrElse(subject.targetPercentage, settings), NumberValue(75))

getPercentageColor(percentage, target) ==
  IF GreaterEq[percentage, FromInt[target]] THEN "success"
  ELSE IF GreaterEq[percentage, Sub[FromInt[target], FromInt[5]]]
    THEN "warning"
  ELSE "error"

\* what is drawn for one subject
SubjectCard(subject, settings, attendance) ==
  LET passed == StatsTarget(subject, settings).v
      stat   == calculateSubjectStats(subject.id, subject.name, attendance,
                                      passed)
      targetPercentage == CardTarget(subject, settings).v
  IN  [stat |-> stat,
       passed |-> passed,
       targetPercentage |-> targetPercentage,
       color |-> getPercentageColor(stat.percentage, targetPercentage)]

\* subjects.map(subject => calculateSubjectStats(...)) and
\* subjectStats.map(stat => ...): one card per subject, in order
RECURSIVE SubjectCards(_, _, _)
SubjectCards(subjects, settings, attendance) ==
  IF subjects = <<>> THEN <<>>
  ELSE <<SubjectCard(Head(subjects), settings, attendance)>>
         \o SubjectCards(Tail(subjects), settings, attendance)

(***************************************************************************)
(* State: the inputs handed to the calculator by the screens, and what     *)
(* each function returned for them.                                        *)
(***************************************************************************)
VARIABLES
  attendance,        \* AttendanceRecord[]: [subjectId, date, status]
  subjectId,         \* the subject whose statistics are asked for
  targetPercentage,  \* 0..100
  subjectStats,      \* last result of calculateSubjectStats
  overallStats,      \* last result of calculateOverallStats
  done,              \* the functions applied to the current attendance
  phase,             \* "base", or what the student did with the advice
  plan,              \* the statistics the student acted on
  holidays,          \* Holiday[]: [startDate, endDate]
  date,              \* the date asked about
  holidayResult,     \* last result of isHoliday
  markedDates,       \* last result of getCalendarMarkedDates
  subjects,          \* Subject[]: [id, name, code, color, targetPercentage]
  settings,          \* settings?.targetPercentage
  modalVisible,      \* the add / edit form is open
  editingSubject,    \* <<>> for null, or <<the subject being edited>>
  name,              \* the form's fields
  code,
  selectedColor,
  customTarget,
  alert,             \* the Alert on display: [title, id]
  cards              \* the cards drawn, one per subject

vars == <<attendance, subjectId, targetPercentage, subjectStats,
          overallStats, done, phase, plan, holidays, date, holidayResult,
          markedDates, subjects, settings, modalVisible, editingSubject,
          name, code, selectedColor, customTarget, alert, cards>>

formVars == <<editingSubject, name, code, selectedColor, customTarget>>

screenVars == <<subjects, settings, modalVisible, formVars, alert, cards>>

PRESET_COLORS == <<"#EF4444", "#F59E0B", "#10B981">>

NoAlert == [title |-> "", id |-> ""]

\* the Subjects screen before anything is loaded or typed
ScreenClosed ==
  /\ subjects = <<>>
  /\ settings = Undefined
  /\ modalVisible = FALSE
  /\ editingSubject = <<>>
  /\ name = <<>>
  /\ code = <<>>
  /\ selectedColor = PRESET_COLORS[1]
  /\ customTarget = <<>>
  /\ alert = NoAlert
  /\ cards = <<>>

calendarVars == <<holidays, date, holidayResult, markedDates>>

\* longest attendance list enumerated in full
MaxRecords == 2
\* a term's worth of absences behind up to MaxRecords attended classes
BulkLen == 199

Day0 == <<2024, 1, 1>>

Record(subject, status) ==
  [subjectId |-> subject, date |-> Day0, status |-> status]

Records == {Record(sub, st) : sub \in Subjects, st \in Statuses}

Repeat(r, n) == [i \in 1..n |-> r]

\* every list of at most MaxRecords records
ShortLists == UNION {[1..n -> Records] : n \in 0..MaxRecords}

\* p classes attended, then none or a whole term of classes missed
SampleLists ==
  {Repeat(Record("s1", "present"), p) \o Repeat(Record("s1", "absent"), a) :
     p \in 0..MaxRecords, a \in {0, BulkLen}}

\* the targets every short list is tried with
CoarseTargets == {0, 50, 75, 100}

NoStats == [pending |-> TRUE]
NoPlan == [by |-> "nobody", total |-> 0, percentage |-> Zero, count |-> 0]

Init ==
  /\ \/ attendance \in ShortLists /\ targetPercentage \in CoarseTargets
     \/ attendance \in SampleLists /\ targetPercentage \in Targets
  /\ subjectId = "s1"
  /\ subjectStats = NoStats
  /\ overallStats = NoStats
  /\ done = {}
  /\ phase = "base"
  /\ plan = NoPlan
  /\ holidays = <<>>
  /\ date = Day0
  /\ holidayResult = Returned(FALSE)
  /\ markedDates = <<>>
  /\ ScreenClosed

\* the result of function f for the current attendance
StatsOf(f) == IF f = "subject" THEN subjectStats ELSE overallStats

\* a screen renders the statistics of one subject
CalcSubject ==
  /\ "subject" \notin done
  /\ plan.by \in {"nobody", "subject"}
  /\ subjectStats' = calculateSubjectStats(subjectId, SubjectName(subjectId),
                                           attendance, targetPercentage)
  /\ done' = done \cup {"subject"}
  /\ UNCHANGED <<attendance, subjectId, targetPercentage, overallStats,
                 phase, plan, calendarVars, screenVars>>

\* a screen renders the statistics over all subjects
CalcOverall ==
  /\ "overall" \notin done
  /\ plan.by \in {"nobody", "overall"}
  /\ overallStats' = calculateOverallStats(attendance, targetPercentage)
  /\ done' = done \cup {"overall"}
  /\ UNCHANGED <<attendance, subjectId, targetPercentage, subjectStats,
                 phase, plan, calendarVars, screenVars>>

\* the percentage and the number of counted classes of a result
PercentageOf(f) == StatsOf(f).percentage
TotalOf(f) == IF f = "subject" THEN subjectStats.total
              ELSE overallStats.totalClasses

\* Below the target, the student attends the `required` next classes of the
\* subject: that many present records are appended.
AttendRequired ==
  \E f \in done :
    /\ phase = "base"
    /\ TotalOf(f) > 0
    /\ Less[PercentageOf(f), FromInt[targetPercentage]]
    /\ attendance' = attendance
         \o Repeat(Record(subjectId, "present"), ToInt[StatsOf(f).required])
    /\ phase' = "attended"
    /\ plan' = [by |-> f, total |-> TotalOf(f),
                percentage |-> PercentageOf(f),
                count |-> ToInt[StatsOf(f).required]]
    /\ done' = {}
    /\ subjectStats' = NoStats
    /\ overallStats' = NoStats
    /\ UNCHANGED <<subjectId, targetPercentage, calendarVars, screenVars>>

\* At or above the target, the student skips the `bunkable` next classes of
\* the subject: that many absent records are appended.
SkipBunkable ==
  \E f \in done :
    /\ phase = "base"
    /\ TotalOf(f) > 0
    /\ GreaterEq[PercentageOf(f), FromInt[targetPercentage]]
    /\ IsFinite(StatsOf(f).bunkable)
    /\ attendance' = attendance
         \o Repeat(Record(subjectId, "absent"), ToInt[StatsOf(f).bunkable])
    /\ phase' = "skipped"
    /\ plan' = [by |-> f, total |-> TotalOf(f),
                percentage |-> PercentageOf(f),
                count |-> ToInt[StatsOf(f).bunkable]]
    /\ done' = {}
    /\ subjectStats' = NoStats
    /\ overallStats' = NoStats
    /\ UNCHANGED <<subjectId, targetPercentage, calendarVars, screenVars>>

Next == CalcSubject \/ CalcOverall \/ AttendRequired \/ SkipBunkable

Spec == Init /\ [][Next]_vars

(***************************************************************************)
(* The two functions on the inputs of Init and on every term of TermLen    *)
(* classes with one half day, with every target.                           *)
(***************************************************************************)
TermLen == 25

\* p classes attended, a half day, the rest of the term missed
TermLists ==
  {Repeat(Record("s1", "present"), p) \o <<Record("s1", "half")>>
     \o Repeat(Record("s1", "absent"), TermLen - 1 - p) :
     p \in 0..(TermLen - 1)}

InitTerm ==
  /\ \/ attendance \in ShortLists /\ targetPercentage \in CoarseTargets
     \/ attendance \in SampleLists /\ targetPercentage \in Targets
     \/ attendance \in TermLists /\ targetPercentage \in Targets
  /\ subjectId = "s1"
  /\ subjectStats = NoStats
  /\ overallStats = NoStats
  /\ done = {}
  /\ phase = "base"
  /\ plan = NoPlan
  /\ holidays = <<>>
  /\ date = Day0
  /\ holidayResult = Returned(FALSE)
  /\ markedDates = <<>>
  /\ ScreenClosed

NextTerm == CalcSubject \/ CalcOverall

SpecTerm == InitTerm /\ [][NextTerm]_vars

(***************************************************************************)
(* isHoliday: every list of at most MaxHolidays holidays over Dates, in    *)
(* either order of the two ends, and every date of Dates asked about.      *)
(***************************************************************************)
MaxHolidays == 2

Dates == {<<2023, 12, 31>>, <<2024, 1, 1>>, <<2024, 1, 3>>, <<2024, 1, 5>>,
          <<2024, 1, 6>>, <<2024, 2, 29>>}

Holidays == [startDate : Dates, endDate : Dates]

InitHoliday ==
  /\ holidays \in UNION {[1..n -> Holidays] : n \in 0..MaxHolidays}
  /\ date \in Dates
  /\ holidayResult = Returned(FALSE)
  /\ markedDates = <<>>
  /\ ScreenClosed
  /\ attendance = <<>>
  /\ subjectId = "s1"
  /\ targetPercentage = 75
  /\ subjectStats = NoStats
  /\ overallStats = NoStats
  /\ done = {}
  /\ phase = "base"
  /\ plan = NoPlan

\* a screen asks whether the date is a holiday
CallIsHoliday ==
  /\ "isHoliday" \notin done
  /\ \E version \in DateFnsVersions :
       holidayResult' = isHoliday(date, holidays, version)
  /\ done' = done \cup {"isHoliday"}
  /\ UNCHANGED <<attendance, subjectId, targetPercentage, subjectStats,
                 overallStats, phase, plan, holidays, date, markedDates,
                 screenVars>>

NextHoliday == CallIsHoliday

SpecHoliday == InitHoliday /\ [][NextHoliday]_vars

(***************************************************************************)
(* getCalendarMarkedDates: every list of at most MaxRecords records over   *)
(* CalendarDates, with and without a holiday.                              *)
(***************************************************************************)
CalendarDates == {<<2024, 1, 1>>, <<2024, 1, 3>>, <<2024, 2, 29>>}

CalendarRecords ==
  {[subjectId |-> sub, date |-> d, status |-> st] :
     sub \in {"s1"}, d \in CalendarDates, st \in Statuses}

CalendarHolidays ==
  {<<>>, <<[startDate |-> <<2024, 1, 1>>, endDate |-> <<2024, 1, 5>>]>>}

InitCalendar ==
  /\ attendance \in UNION {[1..n -> CalendarRecords] : n \in 0..MaxRecords}
  /\ holidays \in CalendarHolidays
  /\ date = Day0
  /\ holidayResult = Returned(FALSE)
  /\ markedDates = <<>>
  /\ ScreenClosed
  /\ subjectId = "s1"
  /\ targetPercentage = 75
  /\ subjectStats = NoStats
  /\ overallStats = NoStats
  /\ done = {}
  /\ phase = "base"
  /\ plan = NoPlan

\* the calendar screen derives its marks
CallGetCalendarMarkedDates ==
  /\ "getCalendarMarkedDates" \notin done
  /\ markedDates' = getCalendarMarkedDates(attendance, holidays)
  /\ done' = done \cup {"getCalendarMarkedDates"}
  /\ UNCHANGED <<attendance, subjectId, targetPercentage, subjectStats,
                 overallStats, phase, plan, holidays, date, holidayResult,
                 screenVars>>

NextCalendar == CallGetCalendarMarkedDates

SpecCalendar == InitCalendar /\ [][NextCalendar]_vars

(***************************************************************************)
(* The Subjects screen: subjects are added, edited and deleted through the *)
(* form, and the cards are drawn again after every change of the subjects. *)
(* The code and colour inputs of the form are left at what the handlers    *)
(* set; they do not reach the statistics.                                  *)
(***************************************************************************)
MaxSubjects == 2

\* `subject_${Date.now()}`: an id no subject has yet
IdPool == <<"s1", "s2", "s3", "s4">>

NewId(list) ==
  IdPool[CHOOSE i \in DOMAIN IdPool :
           /\ \A j \in DOMAIN list : list[j].id # IdPool[i]
           /\ \A k \in 1..(i - 1) : \E j \in DOMAIN list : list[j].id = IdPool[k]]

\* what may be typed into the name field
NameTexts == {<<>>, <<" ">>, <<" ", "M", " ">>}

\* what may be typed into the custom target field (number pad, maxLength 3)
TargetTexts == {<<>>, <<"0">>, <<"0", "7">>, <<"7", "5">>, <<"1", "0", "0">>}

\* the global target of the settings, when there is one
SettingsTargets == {Undefined, NumberValue(60)}

\* the data layer's addSubject, updateSubject and deleteSubject
AddSubject(list, subject) == Append(list, subject)

UpdateSubject(list, id, subject) ==
  [i \in DOMAIN list |-> IF list[i].id = id THEN subject ELSE list[i]]

DeleteSubject(list, id) == SelectSeq(list, LAMBDA sub : sub.id # id)

DeleteAttendance(records, id) ==
  SelectSeq(records, LAMBDA a : a.subjectId # id)

InitSubjects ==
  /\ subjects = <<>>
  /\ settings \in SettingsTargets
  /\ modalVisible = FALSE
  /\ editingSubject = <<>>
  /\ name = <<>>
  /\ code = <<>>
  /\ selectedColor = PRESET_COLORS[1]
  /\ customTarget = <<>>
  /\ alert = NoAlert
  /\ cards = <<>>
  /\ attendance = <<Record("s1", "present"), Record("s1", "absent")>>
  /\ subjectId = "s1"
  /\ targetPercentage = 75
  /\ subjectStats = NoStats
  /\ overallStats = NoStats
  /\ done = {}
  /\ phase = "base"
  /\ plan = NoPlan
  /\ holidays = <<>>
  /\ date = Day0
  /\ holidayResult = Returned(FALSE)
  /\ markedDates = <<>>

calculatorVars == <<subjectId, targetPercentage, subjectStats, overallStats,
                    done, phase, plan, calendarVars>>

openAddModal ==
  /\ ~modalVisible /\ alert = NoAlert
  /\ Len(subjects) < MaxSubjects
  /\ editingSubject' = <<>>
  /\ name' = <<>>
  /\ code' = <<>>
  /\ selectedColor' = PRESET_COLORS[1]
  /\ customTarget' = <<>>
  /\ modalVisible' = TRUE
  /\ UNCHANGED <<subjects, settings, alert, cards, attendance, calculatorVars>>

openEditModal ==
  \E i \in DOMAIN subjects :
    /\ ~modalVisible /\ alert = NoAlert
    /\ editingSubject' = <<subjects[i]>>
    /\ name' = subjects[i].name
    /\ code' = subjects[i].code
    /\ selectedColor' = subjects[i].color
    /\ customTarget' = TargetText(subjects[i].targetPercentage)
    /\ modalVisible' = TRUE
    /\ UNCHANGED <<subjects, settings, alert, cards, attendance,
                   calculatorVars>>

setName ==
  \E text \in NameTexts :
    /\ modalVisible /\ alert = NoAlert
    /\ name' = text
    /\ UNCHANGED <<subjects, settings, modalVisible, editingSubject, code,
                   selectedColor, customTarget, alert, cards, attendance,
                   calculatorVars>>

setCustomTarget ==
  \E text \in TargetTexts :
    /\ modalVisible /\ alert = NoAlert
    /\ customTarget' = text
    /\ UNCHANGED <<subjects, settings, modalVisible, editingSubject, name,
                   code, selectedColor, alert, cards, attendance,
                   calculatorVars>>

\* the close button, the Cancel button and the back key
closeModal ==
  /\ modalVisible /\ alert = NoAlert
  /\ modalVisible' = FALSE
  /\ UNCHANGED <<subjects, settings, formVars, alert, cards, attendance,
                 calculatorVars>>

\* handleSave with an empty name
handleSaveNoName ==
  /\ modalVisible /\ alert = NoAlert
  /\ Trim(name) = <<>>
  /\ alert' = [title |-> "Error", id |-> ""]
  /\ UNCHANGED <<subjects, settings, modalVisible, formVars, cards,
                 attendance, calculatorVars>>

\* the subject the form describes
SubjectData ==
  [id    |-> IF editingSubject # <<>> THEN editingSubject[1].id
             ELSE NewId(subjects),
   name  |-> Trim(name),
   code  |-> Trim(code),
   color |-> selectedColor,
   targetPercentage |-> IF customTarget # <<>> THEN parseInt(customTarget)
                        ELSE Undefined]

\* handleSave with a name, up to the cards being drawn again
handleSave ==
  /\ modalVisible /\ alert = NoAlert
  /\ Trim(name) # <<>>
  /\ subjects' = IF editingSubject # <<>>
                   THEN UpdateSubject(subjects, editingSubject[1].id,
                                      SubjectData)
                   ELSE AddSubject(subjects, SubjectData)
  /\ modalVisible' = FALSE
  /\ UNCHANGED <<settings, formVars, alert, attendance, calculatorVars>>

handleDelete ==
  \E i \in DOMAIN subjects :
    /\ ~modalVisible /\ alert = NoAlert
    /\ alert' = [title |-> "Delete Subject", id |-> subjects[i].id]
    /\ UNCHANGED <<subjects, settings, modalVisible, formVars, cards,
                   attendance, calculatorVars>>

\* OK on the error, Cancel on the question
dismissAlert ==
  /\ alert # NoAlert
  /\ alert' = NoAlert
  /\ UNCHANGED <<subjects, settings, modalVisible, formVars, cards,
                 attendance, calculatorVars>>

\* Delete on the question: deleteSubject(subject.id), up to the cards being
\* drawn again
confirmDelete ==
  /\ alert.title = "Delete Subject"
  /\ alert' = NoAlert
  /\ subjects' = DeleteSubject(subjects, alert.id)
  /\ attendance' = DeleteAttendance(attendance, alert.id)
  /\ UNCHANGED <<settings, modalVisible, formVars, calculatorVars>>

\* a change of the stored subjects, and the screen drawn from the new data
ChangeSubjects ==
  /\ handleSave \/ confirmDelete
  /\ cards' = SubjectCards(subjects', settings, attendance')

NextSubjects ==
  \/ openAddModal \/ openEditModal \/ setName \/ setCustomTarget
  \/ closeModal \/ handleSaveNoName \/ handleDelete \/ dismissAlert
  \/ ChangeSubjects

SpecSubjects == InitSubjects /\ [][NextSubjects]_vars

(***************************************************************************)
(* Claims                                                                  *)
(***************************************************************************)
\* the indices of the records of the subject asked for, and how many of
\* them carry a status
OwnRecords == {i \in DOMAIN attendance : attendance[i].subjectId = subjectId}
OwnCount(status) ==
  Cardinality({i \in OwnRecords : attendance[i].status = status})

\* the attendance list without the records of other subjects
OwnAttendance == SelectSeq(attendance, LAMBDA a : a.subjectId = subjectId)

\* C1: calculateSubjectStats counts only the records of the given subject:
\* total is the number of its present, absent and half records, absent and
\* half are the numbers of its absent and half records, the reported present
\* is floor(P + 0.5 * H), and the records of other subjects change no field
\* of the result.
C1_SubjectCounts ==
  "subject" \in done =>
    /\ subjectStats.total =
         OwnCount("present") + OwnCount("absent") + OwnCount("half")
    /\ subjectStats.absent = OwnCount("absent")
    /\ subjectStats.half = OwnCount("half")
    /\ IsFinite(subjectStats.present)
    /\ ToInt[subjectStats.present] =
         (2 * OwnCount("present") + OwnCount("half")) \div 2
    /\ subjectStats = calculateSubjectStats(subjectId, SubjectName(subjectId),
                                            OwnAttendance, targetPercentage)

\* a list that mixes both subjects, with a half day and an excluded record of
\* the subject asked for
C1_Witness ==
  /\ "subject" \in done
  /\ \E i \in DOMAIN attendance : attendance[i].subjectId # subjectId
  /\ OwnCount("half") = 1
  /\ subjectStats.total = 1
  /\ subjectStats.present = Zero

\* C2: whenever the counted total is 0, both functions return percentage 0,
\* bunkable 0, required 0 and present / attended 0, for every target.
C2_ZeroTotal ==
  /\ ("subject" \in done /\ subjectStats.total = 0) =>
       /\ subjectStats.percentage = Zero
       /\ subjectStats.bunkable = Zero
       /\ subjectStats.required = Zero
       /\ subjectStats.present = Zero
  /\ ("overall" \in done /\ overallStats.totalClasses = 0) =>
       /\ overallStats.percentage = Zero
       /\ overallStats.bunkable = Zero
       /\ overallStats.required = Zero
       /\ overallStats.attended = Zero

\* only excluded records, at the target where 1 - target is 0
C2_Witness ==
  /\ done = {"subject", "overall"}
  /\ attendance # <<>>
  /\ \A i \in DOMAIN attendance :
       attendance[i].status \in {"holiday", "cancelled"}
  /\ targetPercentage = 100
  /\ subjectStats.total = 0
  /\ overallStats.totalClasses = 0

\* C3: for every list and every target in 0..100 the returned bunkable is a
\* well-defined number >= 0.
C3_BunkableDefined ==
  \A f \in done :
    /\ IsFinite(StatsOf(f).bunkable)
    /\ ~Less[StatsOf(f).bunkable, Zero]

\* C4: below a target in 1..99, appending `required` present records yields
\* a list whose percentage is >= the target.
C4_RequiredReachesTarget ==
  (phase = "attended" /\ plan.by \in done /\ targetPercentage \in 1..99) =>
    GreaterEq[PercentageOf(plan.by), FromInt[targetPercentage]]

\* C5: at or above a target in 1..99, appending `bunkable` absent records
\* yields a list whose percentage is still >= the target.
C5_BunkableKeepsTarget ==
  (phase = "skipped" /\ plan.by \in done /\ targetPercentage \in 1..99) =>
    GreaterEq[PercentageOf(plan.by), FromInt[targetPercentage]]

\* C6 as stated: required is 0 whenever the returned (two-decimal rounded)
\* percentage is >= targetPercentage.
C6_RequiredZeroAtRoundedTarget ==
  \A f \in done :
    GreaterEq[PercentageOf(f), FromInt[targetPercentage]] =>
      StatsOf(f).required = Zero

\* the records function f counts from, and twice their present value
RecordsOf(f) == IF f = "subject" THEN OwnAttendance ELSE attendance
TwicePresent(records) ==
  2 * CountStatus(records, "present") + CountStatus(records, "half")
Counted(records) ==
  CountStatus(records, "present") + CountStatus(records, "absent")
    + CountStatus(records, "half")

\* is present / total * 100 >= targetPercentage, in exact arithmetic
AtOrAboveTarget(records) ==
  100 * TwicePresent(records) >= 2 * targetPercentage * Counted(records)

\* C6 amended: required is 0 whenever the percentage before rounding,
\* present / total * 100, is >= targetPercentage.
C6_RequiredZeroAtTarget ==
  \A f \in done :
    AtOrAboveTarget(RecordsOf(f)) => StatsOf(f).required = Zero

\* classes were counted and the percentage is exactly the (positive) target
C6_Witness ==
  /\ done = {"subject", "overall"}
  /\ targetPercentage > 0
  /\ Counted(OwnAttendance) > 0
  /\ 100 * TwicePresent(OwnAttendance)
       = 2 * targetPercentage * Counted(OwnAttendance)
  /\ subjectStats.required = Zero
  /\ overallStats.required = Zero

\* C7: the returned percentage is between 0 and 100 in both functions.
C7_PercentageRange ==
  \A f \in done :
    /\ IsFinite(PercentageOf(f))
    /\ ~Less[PercentageOf(f), Zero]
    /\ ~Less[FromInt[100], PercentageOf(f)]

\* every class of the subject attended (exactly 100), and a half day of the
\* other subject pulling the overall percentage below 100
C7_Witness ==
  /\ done = {"subject", "overall"}
  /\ subjectStats.total > 0
  /\ subjectStats.percentage = FromInt[100]
  /\ \E i \in DOMAIN attendance : attendance[i].status = "half"
  /\ Less[Zero, overallStats.percentage]
  /\ Less[overallStats.percentage, FromInt[100]]

\* C8: when every record carries the subject asked for, calculateOverallStats
\* returns totalClasses, attended, percentage, bunkable and required equal to
\* the total, present, percentage, bunkable and required of
\* calculateSubjectStats.
C8_OverallEqualsSubject ==
  (/\ done = {"subject", "overall"}
   /\ \A i \in DOMAIN attendance : attendance[i].subjectId = subjectId) =>
    /\ overallStats.totalClasses = subjectStats.total
    /\ overallStats.attended = subjectStats.present
    /\ overallStats.percentage = subjectStats.percentage
    /\ overallStats.bunkable = subjectStats.bunkable
    /\ overallStats.required = subjectStats.required

\* a one-subject list with a half day and an excluded record
C8_Witness ==
  /\ done = {"subject", "overall"}
  /\ \A i \in DOMAIN attendance : attendance[i].subjectId = subjectId
  /\ OwnCount("half") = 1
  /\ OwnCount("holiday") = 1
  /\ overallStats.totalClasses = 1
  /\ subjectStats.total = 1

\* 'yyyy-MM-dd' strings compare as their <<y, m, d>> triples do
DateLeq(a, b) ==
  \/ a[1] < b[1]
  \/ a[1] = b[1] /\ a[2] < b[2]
  \/ a[1] = b[1] /\ a[2] = b[2] /\ a[3] <= b[3]

\* some holiday has startDate <= date <= endDate
Covered ==
  \E i \in DOMAIN holidays :
    DateLeq(holidays[i].startDate, date) /\ DateLeq(date, holidays[i].endDate)

\* no holiday starts after it ends
WellFormedHolidays ==
  \A i \in DOMAIN holidays : DateLeq(holidays[i].startDate, holidays[i].endDate)

LastRecordOn(d) ==
  attendance[CHOOSE i \in DOMAIN attendance :
               /\ attendance[i].date = d
               /\ \A j \in DOMAIN attendance :
                    attendance[j].date = d => j <= i]

\* C10: the key set of getCalendarMarkedDates is the set of dates occurring
\* in the list; every entry is marked, and its dotColor is the colour of the
\* last record carrying that date, whatever the holidays are.
C10_CalendarMarks ==
  "getCalendarMarkedDates" \in done =>
    /\ DOMAIN markedDates = {attendance[i].date : i \in DOMAIN attendance}
    /\ \A d \in DOMAIN markedDates :
         /\ markedDates[d].marked = TRUE
         /\ LET status == LastRecordOn(d).status
            IN  /\ status = "present" => markedDates[d].dotColor = "#10B981"
                /\ status = "absent" => markedDates[d].dotColor = "#EF4444"
                /\ status = "half" => markedDates[d].dotColor = "#F59E0B"
                /\ status \in {"holiday", "cancelled"} =>
                     markedDates[d].dotColor = "#9CA3AF"

\* two records on one date, an absence overwriting an attended class, with a
\* holiday list given
C10_Witness ==
  /\ "getCalendarMarkedDates" \in done
  /\ holidays # <<>>
  /\ Len(attendance) = 2
  /\ attendance[1].date = attendance[2].date
  /\ attendance[1].status = "present"
  /\ attendance[2].status = "absent"
  /\ markedDates[attendance[1].date].dotColor = "#EF4444"

\* the target the claim expects for a subject: its own override when one in
\* 0..100 is set, else the settings' target when set, else 75
ExpectedTarget(subject) ==
  IF subject.targetPercentage.t = "number"
     /\ subject.targetPercentage.v \in 0..100
    THEN subject.targetPercentage.v
  ELSE IF settings.t = "number" THEN settings.v
  ELSE 75

\* C11: on the Subjects screen the target handed to calculateSubjectStats for
\* a subject is the subject's own override whenever one in 0..100 is set (0
\* included), otherwise the settings' target when set, otherwise 75; the card
\* shows and colours by the same target.
C11_TargetPrecedence ==
  \A i \in DOMAIN cards :
    /\ cards[i].passed = ExpectedTarget(subjects[i])
    /\ cards[i].targetPercentage = cards[i].passed

\* the percentage as the code computes it, before Math.round
UnroundedPercentage(records) ==
  Percentage(Accumulate(records), Counted(records))

\* bunkable = 0 or required = 0, for a target below 100
NotBothPositive(f) ==
  targetPercentage \in 0..99 =>
    StatsOf(f).bunkable = Zero \/ StatsOf(f).required = Zero

\* at least one class is required and none can be skipped
RequiredNotBunkable(f) ==
  /\ IsFinite(StatsOf(f).required)
  /\ ~Less[StatsOf(f).required, FromInt[1]]
  /\ StatsOf(f).bunkable = Zero

\* C12 as stated: for a target in 0..99 bunkable = 0 or required = 0; and
\* when total > 0, the target is in 1..99 and the unrounded percentage the
\* code computed is below the target, required >= 1 and bunkable = 0.
C12_RequiredWhenComputedBelow ==
  \A f \in done :
    /\ NotBothPositive(f)
    /\ ( /\ Counted(RecordsOf(f)) > 0
         /\ targetPercentage \in 1..99
         /\ Less[UnroundedPercentage(RecordsOf(f)), FromInt[targetPercentage]] )
       => RequiredNotBunkable(f)

\* C12, amended: for a target in 0..99 bunkable = 0 or required = 0; and
\* when total > 0, the target is in 1..99 and present / total * 100 is below
\* the target in exact arithmetic, required >= 1 and bunkable = 0.
C12_RequiredWhenBelow ==
  \A f \in done :
    /\ NotBothPositive(f)
    /\ ( /\ Counted(RecordsOf(f)) > 0
         /\ targetPercentage \in 1..99
         /\ ~AtOrAboveTarget(RecordsOf(f)) )
       => RequiredNotBunkable(f)

\* a term with 13.5 of 25 classes attended (54%) against a target of 58:
\* both functions ask for classes and allow none to be skipped
C12_Witness ==
  /\ done = {"subject", "overall"}
  /\ targetPercentage = 58
  /\ Counted(attendance) = TermLen
  /\ TwicePresent(attendance) = 27
  /\ RequiredNotBunkable("subject")
  /\ RequiredNotBunkable("overall")

=============================================================================
